---- MODULE Spec2Model ----
(***************************************************************************)
(* UnityIssue1154TestApp: a command-line harness that runs an ordered list *)
(* of Firestore reads and writes one at a time, blocking the main thread   *)
(* on every future through AwaitableFutureCompletion.                      *)
(*                                                                         *)
(* The repository holds two variants of the program:                       *)
(*   "main.cc"   src/main.cc            (ParseOperations, fixed payload)   *)
(*   "README.md" src/README.md:60-324   (ParseArguments, --key / --value)  *)
(* The Firebase SDK is the external collaborator: its futures complete on  *)
(* a worker thread, with an outcome the program does not control.          *)
(***************************************************************************)
EXTENDS Integers, Sequences, FiniteSets, TLC

----------------------------------------------------------------------------
(* Bounds of the model *)

\* the argument lists (argv[1..]) the model draws: the load of a list, the
\* number of its tokens plus the number of its "read" and "write" tokens, is at
\* most MaxLoad (three operations, or two operations and a flag with its
\* payload, or one operation and two flags with their payloads)
MaxLoad == 6

\* longest argument list of the specification with fairness
MaxFairArgs == 2

----------------------------------------------------------------------------
(* Inputs *)

Programs == {"main.cc", "README.md"}

\* "A" and "B" stand for any token that is none of the four keywords
Tokens == {"read", "write", "--key", "--value", "A", "B"}

\* tokens to parse plus operations to run
Load(a) == Len(a) + Cardinality({i \in DOMAIN a : a[i] \in {"read", "write"}})

\* the argument lists of at most n tokens and of load at most m
ArgLists(n, m) == {a \in UNION {[1..k -> Tokens] : k \in 0..n} : Load(a) <= m}

\* enum class Operation
kRead == "kRead"
kWrite == "kWrite"

\* firebase::firestore::Error: success, and the failure the program was written
\* to reproduce (a read that times out while the connection is set up)
kErrorOk == 0
kErrorDeadlineExceeded == 4

\* the error codes the model lets the collaborator report for a failure
FailureCodes == {kErrorDeadlineExceeded}

\* FutureStatus
kFutureStatusPending == "kFutureStatusPending"
kFutureStatusComplete == "kFutureStatusComplete"

----------------------------------------------------------------------------
(* Argument parsing *)

NoError == [kind |-> "none", token |-> ""]
InvalidArgument(arg) == [kind |-> "invalid argument", token |-> arg]
ExpectedAfter(flag) == [kind |-> "Expected argument after", token |-> flag]
NoArguments == [kind |-> "No arguments specified", token |-> ""]

\* struct ParsedArguments, with the parser's locals and the thrown exception
EmptyParsedArguments ==
  [operations |-> <<>>, key |-> "", key_valid |-> FALSE,
   value |-> "", value_valid |-> FALSE,
   next_is_key |-> FALSE, next_is_value |-> FALSE, thrown |-> NoError]

\* mutant of PushRead: the operation is put in front of the list
PushReadFront(operations) == <<kRead>> \o operations

\* "read" appends Operation::kRead
PushRead(operations) == Append(operations, kRead)

\* "write" appends Operation::kWrite
PushWrite(operations) == Append(operations, kWrite)

\* mutant of StoreKey: a key once stored is kept, the first --key wins
StoreKeyFirstWins(args, arg) ==
  IF args.key_valid THEN [args EXCEPT !.next_is_key = FALSE]
  ELSE [args EXCEPT !.key = arg, !.key_valid = TRUE, !.next_is_key = FALSE]

\* a --key payload overwrites the key held so far
StoreKey(args, arg) == [args EXCEPT !.key = arg, !.key_valid = TRUE, !.next_is_key = FALSE]

\* a --value payload overwrites the value held so far
StoreValue(args, arg) ==
  [args EXCEPT !.value = arg, !.value_valid = TRUE, !.next_is_value = FALSE]

\* one iteration of the for loop of ParseArguments
ParseArgumentsStep(args, arg) ==
  IF args.next_is_key THEN StoreKey(args, arg)
  ELSE IF args.next_is_value THEN StoreValue(args, arg)
  ELSE IF arg = "read" THEN [args EXCEPT !.operations = PushRead(@)]
  ELSE IF arg = "write" THEN [args EXCEPT !.operations = PushWrite(@)]
  ELSE IF arg = "--key" THEN [args EXCEPT !.next_is_key = TRUE]
  ELSE IF arg = "--value" THEN [args EXCEPT !.next_is_value = TRUE]
  ELSE [args EXCEPT !.thrown = InvalidArgument(arg)]

RECURSIVE ParseArgumentsLoop(_, _, _)
ParseArgumentsLoop(argv, i, args) ==
  IF i > Len(argv) \/ args.thrown # NoError THEN args
  ELSE ParseArgumentsLoop(argv, i + 1, ParseArgumentsStep(args, argv[i]))

\* mutant of ParseArgumentsFinal: a trailing --key or --value goes unnoticed
ParseArgumentsFinalNoFlagCheck(args) ==
  IF args.thrown # NoError THEN args
  ELSE IF Len(args.operations) = 0 THEN [args EXCEPT !.thrown = NoArguments]
  ELSE args

\* the checks that follow the loop of ParseArguments
ParseArgumentsFinal(args) ==
  IF args.thrown # NoError THEN args
  ELSE IF args.next_is_key THEN [args EXCEPT !.thrown = ExpectedAfter("--key")]
  ELSE IF args.next_is_value THEN [args EXCEPT !.thrown = ExpectedAfter("--value")]
  ELSE IF Len(args.operations) = 0 THEN [args EXCEPT !.thrown = NoArguments]
  ELSE args

ParseArguments(argv) == ParseArgumentsFinal(ParseArgumentsLoop(argv, 1, EmptyParsedArguments))

\* one iteration of the for loop of ParseOperations
ParseOperationsStep(args, arg) ==
  IF arg = "read" THEN [args EXCEPT !.operations = PushRead(@)]
  ELSE IF arg = "write" THEN [args EXCEPT !.operations = PushWrite(@)]
  ELSE [args EXCEPT !.thrown = InvalidArgument(arg)]

RECURSIVE ParseOperationsLoop(_, _, _)
ParseOperationsLoop(argv, i, args) ==
  IF i > Len(argv) \/ args.thrown # NoError THEN args
  ELSE ParseOperationsLoop(argv, i + 1, ParseOperationsStep(args, argv[i]))

\* the check that follows the loop of ParseOperations
ParseOperationsFinal(args) ==
  IF args.thrown # NoError THEN args
  ELSE IF Len(args.operations) = 0 THEN [args EXCEPT !.thrown = NoArguments]
  ELSE args

ParseOperations(argv) == ParseOperationsFinal(ParseOperationsLoop(argv, 1, EmptyParsedArguments))

\* the parser the program calls at the top of main
Parse(prog, argv) == IF prog = "main.cc" THEN ParseOperations(argv) ELSE ParseArguments(argv)

----------------------------------------------------------------------------
(* The collaborator's values *)

\* FieldValue::Integer and FieldValue::String
FieldValueInteger(text) == <<"integer", text>>
FieldValueString(text) == <<"string", text>>

\* operator<< of a FieldValue: a string is printed quoted, an integer bare
Render(fv) == IF fv[1] = "string" THEN "'" \o fv[2] \o "'" ELSE fv[2]

\* a document's fields (MapFieldValue) are a set of <<key, FieldValue>> pairs,
\* at most one pair per key
Keys(map) == {p[1] : p \in map}

\* what the remote document may hold before the run
InitialDocs == { {}, {<<"Old", FieldValueString("x")>>} }

\* mutant of Set: the fields of the map are merged into the document
SetMerge(document, map) == {p \in document : p[1] \notin Keys(map)} \cup map

\* DocumentReference::Set(map) with the default SetOptions: the document's
\* fields become exactly the fields of the map
Set(document, map) == map

\* DocumentReference.Get(Source::kServer) on success: a snapshot of the fields
Get(document) == [kind |-> "snapshot", data |-> document]

\* the result record of a future that carries none: a null pointer, or a
\* default-constructed snapshot whose GetData() is the empty map
NoResults == {[kind |-> "null", data |-> {}], [kind |-> "empty", data |-> {}]}
VoidResult == [kind |-> "void", data |-> {}]

ErrorMessage(error) == IF error = kErrorOk THEN "" ELSE "request failed"

ErrorNames ==
  <<"kErrorOk", "kErrorCancelled", "kErrorUnknown", "kErrorInvalidArgument",
    "kErrorDeadlineExceeded", "kErrorNotFound", "kErrorAlreadyExists",
    "kErrorPermissionDenied", "kErrorResourceExhausted", "kErrorFailedPrecondition",
    "kErrorAborted", "kErrorOutOfRange", "kErrorUnimplemented", "kErrorInternal",
    "kErrorUnavailable", "kErrorDataLoss", "kErrorUnauthenticated">>

FirestoreErrorNameFromErrorCode(error) ==
  IF error \in 0..(Len(ErrorNames) - 1) THEN ErrorNames[error + 1] ELSE ToString(error)

\* a future as the collaborator hands it out: Pending, no callback registered
NewFuture(op, map) ==
  [op |-> op, map |-> map, status |-> kFutureStatusPending, error |-> kErrorOk,
   error_message |-> "", result |-> VoidResult, callback |-> FALSE,
   wpc |-> "running", fired |-> FALSE, awaited |-> FALSE]

----------------------------------------------------------------------------
(* Log lines *)

Line(text, n, k, v) == [text |-> text, n |-> n, k |-> k, v |-> v]
Text(text) == Line(text, 0, "", "")

FutureName(op) == IF op = kRead THEN "DocumentReference.Get()" ELSE "DocumentReference.Set()"

StartLine(op) == Line("start", 0, FutureName(op), "")
DoneLine(op) == Line("done", 0, FutureName(op), "")
FailedLine(op, error, message) ==
  Line("FAILED", 0, FutureName(op), FirestoreErrorNameFromErrorCode(error) \o " " \o message)
CountLine(n) == Line("Document num key/value pairs", n, "", "")
EntryLine(i, entry) == Line("Entry", i, entry[1], Render(entry[2]))

\* the range-for over the map in DoRead; the map is unordered, so the
\* iteration order is some fixed order of its entries
RECURSIVE EntryLines(_, _)
EntryLines(data, entry_index) ==
  IF data = {} THEN <<>>
  ELSE LET entry == CHOOSE e \in data : TRUE
       IN <<EntryLine(entry_index + 1, entry)>> \o EntryLines(data \ {entry}, entry_index + 1)

----------------------------------------------------------------------------
(* State *)

VARIABLES
  program,      \* which variant of the program runs
  argv,         \* argv[1..argc-1]
  args,         \* the parsed arguments
  th,           \* per thread: pc, and h, the future it awaits
  opIndex,      \* position of the for loop of main in args.operations
  session,      \* "none", "app" (firebase::App created), "firestore"
  exit_status,  \* "none" while the process runs, then "0", "1", "2" or "SIGSEGV"
  futures,      \* every future issued so far, in the order of issue
  mutex,        \* AwaitableFutureCompletion::mutex_ : who holds it
  waiters,      \* threads blocked in AwaitableFutureCompletion::condition_
  doc,          \* the fields of the remote document UnityIssue1154TestApp/TestDoc
  log           \* std::cout, line by line

vars == <<program, argv, args, th, opIndex, session, exit_status, futures, mutex,
          waiters, doc, log>>

MutexFree == [thread |-> "", worker |-> 0]
HeldByThread(t) == [thread |-> t, worker |-> 0]
HeldByWorker(h) == [thread |-> "", worker |-> h]

Running == exit_status = "none"

Goto(t, pc) == [th EXCEPT ![t].pc = pc]

InitWith(lists) ==
  /\ program \in Programs
  /\ argv \in lists
  /\ args = EmptyParsedArguments
  /\ th = [t \in {"main"} |-> [pc |-> "parse", h |-> 0]]
  /\ opIndex = 0
  /\ session = "none"
  /\ exit_status = "none"
  /\ futures = <<>>
  /\ mutex = MutexFree
  /\ waiters = {}
  /\ doc \in InitialDocs
  /\ log = <<>>

Init == InitWith(ArgLists(MaxLoad, MaxLoad))

----------------------------------------------------------------------------
(* main *)

\* try { args = Parse...(argc, argv); } catch (ArgParseException&) { return 2; }
MainParse ==
  /\ Running /\ th["main"].pc = "parse"
  /\ LET parsed == Parse(program, argv)
     IN IF parsed.thrown # NoError
        THEN /\ log' = Append(log, Line("ERROR: Invalid command-line arguments", 0,
                                         parsed.thrown.kind, parsed.thrown.token))
             /\ exit_status' = "2"
             /\ th' = Goto("main", "exit")
             /\ args' = args
        ELSE /\ args' = parsed
             /\ th' = Goto("main", "create_app")
             /\ UNCHANGED <<log, exit_status>>
  /\ UNCHANGED <<program, argv, opIndex, session, futures, mutex, waiters, doc>>

\* App::Create(AppOptions()), which may return null
CreateApp ==
  /\ Running /\ th["main"].pc = "create_app"
  /\ \E created \in BOOLEAN :
       IF created
       THEN /\ log' = Append(log, Text("Creating firebase::App"))
            /\ session' = "app"
            /\ th' = Goto("main", "create_firestore")
            /\ UNCHANGED exit_status
       ELSE /\ log' = log \o <<Text("Creating firebase::App"),
                               Text("ERROR: Creating firebase::App FAILED!")>>
            /\ exit_status' = "1"
            /\ th' = Goto("main", "exit")
            /\ UNCHANGED session
  /\ UNCHANGED <<program, argv, args, opIndex, futures, mutex, waiters, doc>>

\* Firestore::GetInstance(app.get(), nullptr), which may return null; then
\* the document reference and the "Performing N operations" line
CreateFirestore ==
  /\ Running /\ th["main"].pc = "create_firestore"
  /\ \E created \in BOOLEAN :
       IF created
       THEN /\ log' = log \o <<Text("Creating firebase::firestore::Firestore"),
                               Line("Performing operations", Len(args.operations), "", "")>>
            /\ session' = "firestore"
            /\ opIndex' = 1
            /\ th' = Goto("main", "loop")
            /\ UNCHANGED exit_status
       ELSE /\ log' = log \o <<Text("Creating firebase::firestore::Firestore"),
                               Text("ERROR: Creating firebase::firestore::Firestore FAILED!")>>
            /\ exit_status' = "1"
            /\ th' = Goto("main", "exit")
            /\ UNCHANGED <<session, opIndex>>
  /\ UNCHANGED <<program, argv, args, futures, mutex, waiters, doc>>

\* the for loop of main has run out of operations: return 0
MainReturn ==
  /\ Running /\ th["main"].pc = "loop"
  /\ opIndex > Len(args.operations)
  /\ exit_status' = "0"
  /\ th' = Goto("main", "exit")
  /\ UNCHANGED <<program, argv, args, opIndex, session, futures, mutex, waiters, doc, log>>

\* DoRead up to the call of AwaitCompletion: the header line and doc.Get
DoRead ==
  /\ Running /\ th["main"].pc = "loop"
  /\ opIndex <= Len(args.operations)
  /\ args.operations[opIndex] = kRead
  /\ log' = Append(log, Text("DoRead()"))
  /\ futures' = Append(futures, NewFuture(kRead, {}))
  /\ th' = [th EXCEPT !["main"] = [pc |-> "await_start", h |-> Len(futures) + 1]]
  /\ UNCHANGED <<program, argv, args, opIndex, session, exit_status, mutex, waiters, doc>>

\* mutant of WriteKey: the supplied key is used only along with a supplied value
WriteKeyPaired(a) == IF a.key_valid /\ a.value_valid THEN a.key ELSE "TestKey"

\* the key of a write: args.key_valid ? args.key : "TestKey"
WriteKey(a) == IF a.key_valid THEN a.key ELSE "TestKey"

\* the value of a write: args.value_valid ? args.value : "TestValue"
WriteValue(a) == IF a.value_valid THEN a.value ELSE "TestValue"

\* the map DoWrite sets: main.cc writes meaning=42, README.md writes key=value
WriteMap(prog, a) ==
  IF prog = "main.cc" THEN {<<"meaning", FieldValueInteger("42")>>}
  ELSE {<<WriteKey(a), FieldValueString(WriteValue(a))>>}

\* DoWrite up to the call of AwaitCompletion: the header line and doc.Set
DoWrite ==
  /\ Running /\ th["main"].pc = "loop"
  /\ opIndex <= Len(args.operations)
  /\ args.operations[opIndex] = kWrite
  /\ LET map == WriteMap(program, args)
         entry == CHOOSE e \in map : TRUE
     IN /\ log' = Append(log, IF program = "main.cc" THEN Text("DoWrite()")
                               ELSE Line("DoWrite() setting", 0, entry[1], entry[2][2]))
        /\ futures' = Append(futures, NewFuture(kWrite, map))
  /\ th' = [th EXCEPT !["main"] = [pc |-> "await_start", h |-> Len(futures) + 1]]
  /\ UNCHANGED <<program, argv, args, opIndex, session, exit_status, mutex, waiters, doc>>

\* snapshot->GetData(): the outcomes of reading through the result pointer.
\* Through a null pointer the behaviour is undefined: the process dies, or
\* carries on with whatever it reads (here: an empty map).
GetData(result) ==
  IF result.kind = "null"
  THEN {[crash |-> TRUE, data |-> {}], [crash |-> FALSE, data |-> {}]}
  ELSE {[crash |-> FALSE, data |-> result.data]}

\* DoRead after AwaitCompletion: future.result(), GetData, the count line and
\* one line per entry, whatever the future's error
DoReadResult ==
  /\ Running /\ th["main"].pc = "after_await"
  /\ futures[th["main"].h].op = kRead
  /\ \E got \in GetData(futures[th["main"].h].result) :
       IF got.crash
       THEN /\ exit_status' = "SIGSEGV"
            /\ th' = Goto("main", "exit")
            /\ UNCHANGED <<log, opIndex>>
       ELSE /\ log' = log \o <<CountLine(Cardinality(got.data))>> \o EntryLines(got.data, 0)
            /\ opIndex' = opIndex + 1
            /\ th' = Goto("main", "loop")
            /\ UNCHANGED exit_status
  /\ UNCHANGED <<program, argv, args, session, futures, mutex, waiters, doc>>

\* DoWrite after AwaitCompletion: nothing left to do
DoWriteReturn ==
  /\ Running /\ th["main"].pc = "after_await"
  /\ futures[th["main"].h].op = kWrite
  /\ opIndex' = opIndex + 1
  /\ th' = Goto("main", "loop")
  /\ UNCHANGED <<program, argv, args, session, exit_status, futures, mutex, waiters, doc, log>>

----------------------------------------------------------------------------
(* AwaitableFutureCompletion and AwaitCompletion, for a thread t *)

\* mutant of Predicate: the wait does not look at the future
PredicateIgnoresStatus(future) == TRUE

\* mutant of Predicate: the test is inverted, the wait ends while Pending
PredicateInverted(future) == future.status = kFutureStatusPending

\* the predicate of condition_.wait: future_.status() != kFutureStatusPending
Predicate(future) == future.status # kFutureStatusPending

\* the threads of `woken` leave the condition variable and have to take the
\* mutex again
Wake(threads, blocked, woken) ==
  [th |-> [u \in DOMAIN threads |->
             IF u \in woken THEN [threads[u] EXCEPT !.pc = "await_relock"] ELSE threads[u]],
   waiters |-> blocked \ woken]

\* mutant of NotifyAll: notify_one, a single blocked thread is woken
NotifyOne(threads, blocked) ==
  IF blocked = {} THEN Wake(threads, blocked, {})
  ELSE Wake(threads, blocked, {CHOOSE u \in blocked : TRUE})

\* condition_.notify_all(): every thread blocked in the condition variable is woken
NotifyAll(threads, blocked) == Wake(threads, blocked, blocked)

\* where the constructor goes after future.OnCompletion(OnCompletion): a
\* future that is already complete runs the callback at once, on this thread
AfterRegister(future) ==
  IF future.status = kFutureStatusComplete THEN "ctor_cb_lock" ELSE "await_lock"

\* AwaitCompletion: the "start" line, then the adapter's constructor, which
\* registers OnCompletion with the future
AwaitCompletionStart(t) ==
  /\ Running /\ th[t].pc = "await_start"
  /\ log' = Append(log, StartLine(futures[th[t].h].op))
  /\ futures' = [futures EXCEPT ![th[t].h].callback = TRUE]
  /\ th' = Goto(t, AfterRegister(futures[th[t].h]))
  /\ UNCHANGED <<program, argv, args, opIndex, session, exit_status, mutex, waiters, doc>>

\* OnCompletion run by the registering thread: std::unique_lock lock(mutex_)
CtorCallbackLock(t) ==
  /\ Running /\ th[t].pc = "ctor_cb_lock"
  /\ mutex = MutexFree
  /\ mutex' = HeldByThread(t)
  /\ th' = Goto(t, "ctor_cb_notify")
  /\ UNCHANGED <<program, argv, args, opIndex, session, exit_status, futures, waiters, doc, log>>

\* OnCompletion run by the registering thread: condition_.notify_all(), then
\* the lock goes out of scope (nothing can act on the notification before the
\* mutex is free)
CtorCallbackNotify(t) ==
  /\ Running /\ th[t].pc = "ctor_cb_notify"
  /\ waiters' = NotifyAll(th, waiters).waiters
  /\ th' = [NotifyAll(th, waiters).th EXCEPT ![t].pc = "await_lock"]
  /\ mutex' = MutexFree
  /\ futures' = [futures EXCEPT ![th[t].h].fired = TRUE]
  /\ UNCHANGED <<program, argv, args, opIndex, session, exit_status, doc, log>>

\* AwaitInvoked: std::unique_lock lock(mutex_)
AwaitLock(t) ==
  /\ Running /\ th[t].pc = "await_lock"
  /\ mutex = MutexFree
  /\ mutex' = HeldByThread(t)
  /\ th' = Goto(t, "await_check")
  /\ UNCHANGED <<program, argv, args, opIndex, session, exit_status, futures, waiters, doc, log>>

\* where condition_.wait(lock, pred) goes after evaluating pred
AfterCheck(future) == IF Predicate(future) THEN "await_unlock" ELSE "await_wait"

\* condition_.wait(lock, pred): while (!pred()) wait(lock); the predicate is
\* evaluated with the mutex held
AwaitCheck(t) ==
  /\ Running /\ th[t].pc = "await_check"
  /\ th' = Goto(t, AfterCheck(futures[th[t].h]))
  /\ UNCHANGED <<program, argv, args, opIndex, session, exit_status, futures, mutex,
                 waiters, doc, log>>

\* wait(lock): release the mutex and block, atomically
AwaitWait(t) ==
  /\ Running /\ th[t].pc = "await_wait"
  /\ mutex' = MutexFree
  /\ waiters' = waiters \cup {t}
  /\ th' = Goto(t, "await_sleep")
  /\ UNCHANGED <<program, argv, args, opIndex, session, exit_status, futures, doc, log>>

\* a condition variable may wake a thread that nobody notified
SpuriousWakeup(t) ==
  /\ Running /\ th[t].pc = "await_sleep"
  /\ t \in waiters
  /\ waiters' = waiters \ {t}
  /\ th' = Goto(t, "await_relock")
  /\ UNCHANGED <<program, argv, args, opIndex, session, exit_status, futures, mutex, doc, log>>

\* mutant of AfterWakeup: a plain wait(lock), a woken thread returns without
\* evaluating the predicate again
AfterWakeupNoRecheck == "await_unlock"

\* where condition_.wait(lock, pred) goes once a woken thread holds the mutex
\* again: back to the predicate
AfterWakeup == "await_check"

\* a woken thread takes the mutex again before wait(lock) returns
AwaitRelock(t) ==
  /\ Running /\ th[t].pc = "await_relock"
  /\ mutex = MutexFree
  /\ mutex' = HeldByThread(t)
  /\ th' = Goto(t, AfterWakeup)
  /\ UNCHANGED <<program, argv, args, opIndex, session, exit_status, futures, waiters, doc, log>>

\* AwaitInvoked returns: the lock goes out of scope
AwaitUnlock(t) ==
  /\ Running /\ th[t].pc = "await_unlock"
  /\ mutex' = MutexFree
  /\ futures' = [futures EXCEPT ![th[t].h].awaited = TRUE]
  /\ th' = Goto(t, "inspect")
  /\ UNCHANGED <<program, argv, args, opIndex, session, exit_status, waiters, doc, log>>

\* the line AwaitCompletion logs after the wait
OutcomeLine(future) ==
  IF future.error # kErrorOk
  THEN FailedLine(future.op, future.error, future.error_message)
  ELSE DoneLine(future.op)

\* AwaitCompletion after the wait: future.error() decides FAILED or done
AwaitInspect(t) ==
  /\ Running /\ th[t].pc = "inspect"
  /\ log' = Append(log, OutcomeLine(futures[th[t].h]))
  /\ th' = Goto(t, "after_await")
  /\ UNCHANGED <<program, argv, args, opIndex, session, exit_status, futures, mutex,
                 waiters, doc>>

AwaitStep(t) ==
  \/ AwaitCompletionStart(t)
  \/ CtorCallbackLock(t)
  \/ CtorCallbackNotify(t)
  \/ AwaitLock(t)
  \/ AwaitCheck(t)
  \/ AwaitWait(t)
  \/ AwaitRelock(t)
  \/ AwaitUnlock(t)
  \/ AwaitInspect(t)

----------------------------------------------------------------------------
(* The collaborator's worker thread, for the future h *)

\* the outcomes the collaborator can give a pending future
Outcomes(future) ==
  IF future.op = kRead
  THEN {[error |-> kErrorOk, result |-> Get(doc), document |-> doc]}
       \cup {[error |-> e, result |-> r, document |-> doc] : e \in FailureCodes, r \in NoResults}
  ELSE {[error |-> kErrorOk, result |-> VoidResult, document |-> Set(doc, future.map)]}
       \cup {[error |-> e, result |-> VoidResult, document |-> doc] : e \in FailureCodes}

\* what the worker does once the status is set: run the registered callback
AfterComplete(future) == IF future.callback THEN "cb_lock" ELSE "done"

\* the future leaves Pending: status, error and result are set together, and
\* a callback registered by then is due on the worker thread
Complete(h) ==
  /\ Running /\ h \in DOMAIN futures
  /\ futures[h].status = kFutureStatusPending
  /\ \E o \in Outcomes(futures[h]) :
       /\ futures' = [futures EXCEPT ![h] =
            [@ EXCEPT !.status = kFutureStatusComplete, !.error = o.error,
                      !.error_message = ErrorMessage(o.error), !.result = o.result,
                      !.wpc = AfterComplete(futures[h])]]
       /\ doc' = o.document
  /\ UNCHANGED <<program, argv, args, th, opIndex, session, exit_status, mutex, waiters, log>>

\* OnCompletion on the worker thread: std::unique_lock lock(mutex_)
WorkerCallbackLock(h) ==
  /\ Running /\ h \in DOMAIN futures
  /\ futures[h].wpc = "cb_lock"
  /\ mutex = MutexFree
  /\ mutex' = HeldByWorker(h)
  /\ futures' = [futures EXCEPT ![h].wpc = "cb_notify"]
  /\ UNCHANGED <<program, argv, args, th, opIndex, session, exit_status, waiters, doc, log>>

\* OnCompletion on the worker thread: condition_.notify_all(), then the lock
\* goes out of scope
WorkerCallbackNotify(h) ==
  /\ Running /\ h \in DOMAIN futures
  /\ futures[h].wpc = "cb_notify"
  /\ waiters' = NotifyAll(th, waiters).waiters
  /\ th' = NotifyAll(th, waiters).th
  /\ mutex' = MutexFree
  /\ futures' = [futures EXCEPT ![h].wpc = "done", ![h].fired = TRUE]
  /\ UNCHANGED <<program, argv, args, opIndex, session, exit_status, doc, log>>

WorkerStep(h) ==
  \/ Complete(h)
  \/ WorkerCallbackLock(h)
  \/ WorkerCallbackNotify(h)

----------------------------------------------------------------------------
(* The program *)

Next ==
  \/ MainParse
  \/ CreateApp
  \/ CreateFirestore
  \/ MainReturn
  \/ DoRead
  \/ DoWrite
  \/ DoReadResult
  \/ DoWriteReturn
  \/ AwaitStep("main")
  \/ SpuriousWakeup("main")
  \/ \E h \in DOMAIN futures : WorkerStep(h)

Spec == Init /\ [][Next]_vars

----------------------------------------------------------------------------
(* The argument list read by position, without the parser *)

IsFlag(token) == token \in {"--key", "--value"}

\* the token at i is the payload of a flag: it follows a flag that is not
\* itself a payload
RECURSIVE IsPayload(_, _)
IsPayload(a, i) == i > 1 /\ IsFlag(a[i - 1]) /\ ~IsPayload(a, i - 1)

\* positions of the "read" and "write" tokens that are not payloads
OpPositions(a) == {i \in DOMAIN a : ~IsPayload(a, i) /\ a[i] \in {"read", "write"}}

OperationOf(token) == IF token = "read" THEN kRead ELSE kWrite

\* the operations named at the positions `at`, from position i on, in order
RECURSIVE OpsAt(_, _, _)
OpsAt(a, at, i) ==
  IF i > Len(a) THEN <<>>
  ELSE (IF i \in at THEN <<OperationOf(a[i])>> ELSE <<>>) \o OpsAt(a, at, i + 1)

OpsFrom(a, i) == OpsAt(a, OpPositions(a), i)

\* position in the list of its n-th operation
PositionOfOp(a, n) ==
  CHOOSE p \in OpPositions(a) : Cardinality({q \in OpPositions(a) : q <= p}) = n

Greatest(S) == CHOOSE x \in S : \A y \in S : y <= x

\* payload of the last flag `flag` standing before position p, if there is one
PayloadBefore(a, flag, p, default) ==
  LET at == {i \in 1..(p - 1) : i < Len(a) /\ a[i] = flag /\ ~IsPayload(a, i)}
  IN IF at = {} THEN default ELSE a[Greatest(at) + 1]

HasFlag(a, flag) == \E i \in DOMAIN a : i < Len(a) /\ a[i] = flag /\ ~IsPayload(a, i)

Malformed(a) ==
  \/ a = <<>>
  \/ OpPositions(a) = {}
  \/ \E i \in DOMAIN a : ~IsPayload(a, i) /\ a[i] \notin {"read", "write", "--key", "--value"}
  \/ IsFlag(a[Len(a)]) /\ ~IsPayload(a, Len(a))

OnlyReadWrite(a) == a # <<>> /\ \A i \in DOMAIN a : a[i] \in {"read", "write"}

ParseDone == th["main"].pc # "parse"
ParseSucceeded == ParseDone /\ exit_status # "2"

Writes == {h \in DOMAIN futures : futures[h].op = kWrite}
PendingFutures == {h \in DOMAIN futures : futures[h].status = kFutureStatusPending}

IsFailedLine(line) == line.text = "FAILED"
IsCountLine(line) == line.text = "Document num key/value pairs"
IsEntryLine(line) == line.text = "Entry"

----------------------------------------------------------------------------
(* Claims *)

\* C1: operations are issued in the order of the parsed sequence, at most one
\* future is Pending at any time, and a later operation is issued only after
\* the wait for every earlier future has returned, with that future no longer
\* Pending.
C1_StrictlySequential ==
  /\ Len(futures) <= Len(args.operations)
  /\ \A h \in DOMAIN futures : futures[h].op = args.operations[h]
  /\ Cardinality(PendingFutures) <= 1
  /\ \A h \in DOMAIN futures :
       /\ futures[h].awaited => futures[h].status # kFutureStatusPending
       /\ h < Len(futures) => futures[h].awaited
  /\ th["main"].pc \in {"loop", "exit"} => \A h \in DOMAIN futures : futures[h].awaited

\* C1 witness: the second operation is in flight while the first one's
\* callback has not yet run on the worker thread
C1_Witness ==
  /\ Len(futures) = 2
  /\ futures[2].status = kFutureStatusPending
  /\ futures[1].awaited
  /\ futures[1].wpc = "cb_lock"

\* C3: whatever the outcomes of the reads and writes, once the session exists
\* the process ends with status 0, having issued and awaited every operation
\* of the sequence exactly once.
C3_FailuresKeepControlFlow ==
  (th["main"].pc = "exit" /\ session = "firestore") =>
    /\ exit_status = "0"
    /\ Len(futures) = Len(args.operations)
    /\ \A h \in DOMAIN futures : futures[h].op = args.operations[h] /\ futures[h].awaited

\* C4: a malformed argument list ends the process with status 2, with no
\* session created and no operation issued; a successful parse never yields
\* an empty operation sequence.
C4_MalformedExitsTwo ==
  /\ Malformed(argv) =>
       /\ th["main"].pc \in {"parse", "exit"}
       /\ ParseDone => exit_status = "2"
       /\ session = "none"
       /\ futures = <<>>
  /\ ParseSucceeded => Len(args.operations) > 0

\* C4 witness: `read --key`, the flag without its payload, has exited with 2
C4_Witness ==
  /\ program = "README.md"
  /\ argv = <<"read", "--key">>
  /\ exit_status = "2"

\* C5 as stated: a write uses the payload of the last --key (--value) standing
\* before the write in the argument list, the default when none stands before it.
C5_FlagAppliesToLaterWrites ==
  program = "README.md" =>
    \A h \in Writes :
      futures[h].map =
        {<<PayloadBefore(argv, "--key", PositionOfOp(argv, h), "TestKey"),
           FieldValueString(PayloadBefore(argv, "--value", PositionOfOp(argv, h), "TestValue"))>>}

\* C5 amended: every write of the run uses the payload of the last --key
\* (--value) of the whole argument list, wherever the flag stands relative to
\* the write; the default when the list has no such flag.
C5_LastFlagAppliesToEveryWrite ==
  program = "README.md" =>
    \A h \in Writes :
      futures[h].map =
        {<<PayloadBefore(argv, "--key", Len(argv) + 1, "TestKey"),
           FieldValueString(PayloadBefore(argv, "--value", Len(argv) + 1, "TestValue"))>>}

\* C5 witness: the write stands between `--key A` and `--key B` and uses B
C5_Witness ==
  /\ program = "README.md"
  /\ argv = <<"--key", "A", "write", "--key", "B">>
  /\ Len(futures) = 1
  /\ futures[1].map = {<<"B", FieldValueString("TestValue")>>}

\* C6: a list of only `read` and `write` parses to the operations of the same
\* length and order; with flags interleaved (README.md) the parsed operations
\* are the read/write tokens that are not flag payloads, in their order.
C6_ParserKeepsOrder ==
  ParseDone =>
    /\ OnlyReadWrite(argv) =>
         /\ ParseSucceeded
         /\ Len(args.operations) = Len(argv)
         /\ \A i \in DOMAIN argv : args.operations[i] = OperationOf(argv[i])
    /\ (program = "README.md" /\ ParseSucceeded) => args.operations = OpsFrom(argv, 1)

\* C6 witness: a flag interleaved, its payload `read` being no operation
C6_Witness ==
  /\ program = "README.md"
  /\ argv = <<"--key", "read", "write">>
  /\ ParseSucceeded
  /\ args.operations = <<kWrite>>

DefaultMap(prog) ==
  IF prog = "main.cc" THEN {<<"meaning", FieldValueInteger("42")>>}
  ELSE {<<"TestKey", FieldValueString("TestValue")>>}

OutcomeLines == SelectSeq(log, LAMBDA line : IsFailedLine(line) \/ line.text = "done")
ReadLines == SelectSeq(log, LAMBDA line : IsCountLine(line) \/ IsEntryLine(line))

\* C7: after `write read` with both operations successful the read has logged
\* a field count of 1 and, as its only entry, the default pair just written.
C7_WriteThenReadSeesOnlyDefault ==
  (argv = <<"write", "read">> /\ exit_status = "0"
     /\ \A i \in DOMAIN log : ~IsFailedLine(log[i])) =>
    ReadLines = <<CountLine(1)>> \o EntryLines(DefaultMap(program), 0)

\* C7 witness: `write read` has run to the end without a FAILED line
C7_Witness ==
  /\ argv = <<"write", "read">>
  /\ exit_status = "0"
  /\ OutcomeLines = <<DoneLine(kWrite), DoneLine(kRead)>>

\* C8 as stated: a write's payload is the supplied key with the supplied
\* value, or the default key with the default value.
C8_PayloadSuppliedPairOrDefaultPair ==
  \A h \in Writes :
    \/ futures[h].map = DefaultMap(program)
    \/ /\ args.key_valid /\ args.value_valid
       /\ futures[h].map = {<<args.key, FieldValueString(args.value)>>}

\* C8 amended: key and value are chosen independently: the key is the supplied
\* key when --key was given and the default key otherwise, the value is the
\* supplied value when --value was given and the default value otherwise;
\* without flags every write uses the default pair, and all writes of a run
\* carry the same payload.
C8_KeyAndValueChosenIndependently ==
  \A h \in Writes :
    /\ program = "main.cc" => futures[h].map = DefaultMap(program)
    /\ program = "README.md" =>
         /\ Cardinality(futures[h].map) = 1
         /\ Keys(futures[h].map) =
              {IF HasFlag(argv, "--key") THEN args.key ELSE "TestKey"}
         /\ {p[2] : p \in futures[h].map} =
              {FieldValueString(IF HasFlag(argv, "--value") THEN args.value ELSE "TestValue")}
    /\ (~HasFlag(argv, "--key") /\ ~HasFlag(argv, "--value")) =>
         futures[h].map = DefaultMap(program)
    /\ \A g \in Writes : futures[g].map = futures[h].map

\* C8 witness: two writes after `--key A` alone carry A with the default value
C8_Witness ==
  /\ program = "README.md"
  /\ argv = <<"--key", "A", "write", "write">>
  /\ Len(futures) = 2
  /\ futures[2].map = {<<"A", FieldValueString("TestValue")>>}

\* C9: a read whose future failed logs the FAILED line and nothing else: no
\* field count follows it, and the result record is not read through (so the
\* process cannot die on it).
C9_FailedReadLogsOnlyFailure ==
  /\ exit_status # "SIGSEGV"
  /\ \A i \in DOMAIN log :
       (i < Len(log) /\ IsFailedLine(log[i]) /\ log[i].k = FutureName(kRead))
         => ~IsCountLine(log[i + 1])

----------------------------------------------------------------------------
(* Scheduling *)

\* a thread that can take a step takes it; a thread that asks for the mutex
\* gets it if the mutex keeps coming free. Spurious wakeups and the
\* collaborator's completions are under no obligation to happen.
ThreadFairness(t) ==
  /\ WF_vars(\/ AwaitCompletionStart(t) \/ CtorCallbackNotify(t)
             \/ AwaitCheck(t) \/ AwaitWait(t) \/ AwaitUnlock(t) \/ AwaitInspect(t))
  /\ SF_vars(CtorCallbackLock(t) \/ AwaitLock(t) \/ AwaitRelock(t))

WorkerFairness(h) ==
  /\ SF_vars(WorkerCallbackLock(h))
  /\ WF_vars(WorkerCallbackNotify(h))

MainFairness ==
  WF_vars(\/ MainParse \/ CreateApp \/ CreateFirestore \/ MainReturn
          \/ DoRead \/ DoWrite \/ DoReadResult \/ DoWriteReturn)

InitFair == InitWith(ArgLists(MaxFairArgs, MaxLoad))

\* the program on short argument lists, under fair scheduling
FairSpec ==
  /\ InitFair
  /\ [][Next]_vars
  /\ MainFairness
  /\ ThreadFairness("main")
  /\ \A h \in 1..MaxFairArgs : WorkerFairness(h)

----------------------------------------------------------------------------
(* Two threads awaiting two futures at once: not what main does, but what   *)
(* the shared mutex_ and condition_ would meet if operations were issued    *)
(* concurrently                                                             *)

ConcThreads == {"t1", "t2"}

InitConc ==
  /\ program \in Programs
  /\ argv = <<>>
  /\ args = EmptyParsedArguments
  /\ th = [t \in ConcThreads |-> [pc |-> "await_start", h |-> IF t = "t1" THEN 1 ELSE 2]]
  /\ opIndex = 0
  /\ session = "firestore"
  /\ exit_status = "none"
  /\ \E op1 \in {kRead, kWrite}, op2 \in {kRead, kWrite} :
       futures = <<NewFuture(op1, IF op1 = kWrite THEN DefaultMap(program) ELSE {}),
                   NewFuture(op2, IF op2 = kWrite THEN DefaultMap(program) ELSE {})>>
  /\ mutex = MutexFree
  /\ waiters = {}
  /\ doc \in InitialDocs
  /\ log = <<>>

NextConc ==
  \/ \E t \in ConcThreads : AwaitStep(t)
  \/ \E t \in ConcThreads : SpuriousWakeup(t)
  \/ \E h \in DOMAIN futures : WorkerStep(h)

ConcSpec ==
  /\ InitConc
  /\ [][NextConc]_vars
  /\ \A t \in ConcThreads : ThreadFairness(t)
  /\ \A h \in 1..Cardinality(ConcThreads) : WorkerFairness(h)

----------------------------------------------------------------------------
(* Claims about the wait *)

Left(h) == h \in DOMAIN futures /\ futures[h].status # kFutureStatusPending
Fired(h) == h \in DOMAIN futures /\ futures[h].fired
Awaited(h) == h \in DOMAIN futures /\ futures[h].awaited

\* a thread is past condition_.wait while its own future is still Pending
ReturnedWhilePending ==
  \E t \in DOMAIN th :
    /\ th[t].pc \in {"await_unlock", "inspect", "after_await"}
    /\ futures[th[t].h].status = kFutureStatusPending

\* C2: once a future has left Pending and its callback has run, the wait for
\* it returns, whenever the callback ran: in the constructor, before the wait
\* took the mutex, between the predicate and the sleep, or during the sleep.
C2_AwaitReturns ==
  \A h \in 1..MaxFairArgs : (Left(h) /\ Fired(h)) ~> Awaited(h)

\* C2 witness: the future completed between the waiter's predicate check and
\* its going to sleep; the callback waits for the mutex the waiter holds
C2_Witness ==
  /\ th["main"].pc = "await_wait"
  /\ futures[th["main"].h].wpc = "cb_lock"
  /\ mutex = HeldByThread("main")

IsStartLine(line) == line.text = "start"
IsOutcomeLine(line) == IsFailedLine(line) \/ line.text = "done"
IsHeaderLine(line) == line.text \in {"DoRead()", "DoWrite()", "DoWrite() setting"}

\* C11: AwaitInvoked returns only when its own future is not Pending, also
\* after a wakeup that was spurious or came from another future's callback; so
\* the k-th outcome line is logged when the k-th future is terminal and tells
\* that future's error, and in the log each operation's header is followed by
\* its start line, then its outcome line, before the next operation's header.
C11_OutcomeAfterTerminalState ==
  /\ ~ReturnedWhilePending
  /\ Len(OutcomeLines) <= Len(futures)
  /\ \A k \in DOMAIN OutcomeLines :
       /\ futures[k].status # kFutureStatusPending
       /\ futures[k].awaited
       /\ OutcomeLines[k] = OutcomeLine(futures[k])
  /\ \A i \in DOMAIN log :
       /\ IsHeaderLine(log[i]) /\ i < Len(log) => IsStartLine(log[i + 1])
       /\ IsStartLine(log[i]) => i > 1 /\ IsHeaderLine(log[i - 1])
       /\ IsStartLine(log[i]) /\ i < Len(log) =>
            IsOutcomeLine(log[i + 1]) /\ log[i + 1].k = log[i].k
       /\ IsOutcomeLine(log[i]) => i > 1 /\ IsStartLine(log[i - 1])

\* C11 witness: main, waiting for the second future, has been woken while that
\* future is still Pending, the first future's callback having run after the
\* first operation's outcome line was logged
C11_Witness ==
  /\ th["main"].pc = "await_relock"
  /\ th["main"].h = 2
  /\ futures[2].status = kFutureStatusPending
  /\ futures[1].fired
  /\ Len(OutcomeLines) = 1

====
